---- MODULE Spec2Model ----
(***************************************************************************)
(* Model of bookaware (src/bookaware/main.py): the scheduling/command     *)
(* loop of class VoebbScraperHomeAssistant, and further down the page      *)
(* session, the walker and the table parser of class VoebbScraper (with    *)
(* WebScraper of the script src/main.py) and what process_books_data       *)
(* publishes.                                                              *)
(*                                                                         *)
(* Time is the wall clock returned by time.time(), in seconds.  The shelve *)
(* store /data/state.db is modelled twice: `state` is what the running     *)
(* process reads and writes, `disk` is what is guaranteed to be on disk    *)
(* (the content at the last sync()/close()).  A write that was not synced  *)
(* may or may not survive a crash.                                         *)
(***************************************************************************)
EXTENDS Integers, Sequences, FiniteSets, TLC

VARIABLES
    clock,          \* time.time(): the wall clock, seconds
    pc,             \* position of the process in run()
    next_scrape,    \* self.next_scrape (in memory)
    last_check,     \* self.last_check
    state,          \* self.state: the open shelve, a dict
    disk,           \* content of /data/state.db that survives any crash
    stdin_buffer,   \* self.stdin_buffer
    remaining,      \* time left of the select() timeout
    handled,        \* lines given to process_input by the last read, in order
    attempt,        \* history: how the last scrape attempt ended
    refreshed,      \* history: a refresh command was handled since that attempt
    backs,          \* history: how often the wall clock has been set back
    restarts,       \* history: how often the process has been started again
    data,           \* run(): what the last sys.stdin.read returned
    cause,          \* history: which test of should_scrape started the scrape
    forced,         \* history: the last attempt was started by a clock set back
                    \* that has not been set back again since
    variant,        \* which script runs the walker
    current_url,    \* self.current_url of the walker
    last_response,  \* self.last_response of the walker
    wpc,            \* position of the walker in its run()
    log,            \* history: the requests and parses the walker has made
    ret,            \* how the last call ended: what it returned or raised
    published       \* what process_books_data has handed to MQTT

\* the command loop
lvars == <<clock, pc, next_scrape, last_check, state, disk, stdin_buffer,
           remaining, handled, attempt, refreshed, backs, restarts, data,
           cause, forced>>

\* the walker and what it produced
wvars == <<variant, current_url, last_response, wpc, log, ret, published>>

vars == <<lvars, wvars>>

----------------------------------------------------------------------------
(* Bounds and program constants *)

\* config["interval_hours"]
IntervalHours == 1

\* longest chunk one sys.stdin.read returns
MaxRead == 3

\* longest stdin_buffer content the model follows
MaxBuf == 4

\* how often the wall clock is set back
MaxBacks == 1

\* how often the process is started again
MaxRestarts == 1

\* the soft-refresh cooldown, process_input
Cooldown == 600

\* the floor of the wait, run()
MinWait == 5

SecondsPerHour == 3600

\* self.interval_seconds
interval_seconds == IntervalHours * SecondsPerHour

\* the instants the wall clock is observed at
ClockValues == {1000, 1600, 1601, 4600, 4605}

Max(a, b) == IF a >= b THEN a ELSE b

----------------------------------------------------------------------------
(* The shelve, a dict *)

EmptyStore == [k \in {} |-> 0]

\* dict.get(key, default)
Get(d, key, default) == IF key \in DOMAIN d THEN d[key] ELSE default

\* d[key] = value
Put(d, key, value) ==
    [k \in (DOMAIN d) \cup {key} |-> IF k = key THEN value ELSE d[k]]

----------------------------------------------------------------------------
(* Command input: the text on stdin, as a sequence of symbols.             *)
(*   "F"  = {"refresh":"force"}     "S" = {"refresh":true}                 *)
(*   "Z"  = {"refresh":false}       "E" = {}           "N" = []            *)
(*   "H"  = {"refresh":    and  "Hf" = "force"}   (a force command in two  *)
(*   pieces)    "Sp" = a blank      "NL" = the newline                     *)

Symbols == {"F", "S", "Z", "E", "N", "H", "Hf", "Sp", "NL"}

\* every text of 1..n symbols of S
Texts(S, n) == UNION {[1..k -> S] : k \in 1..n}

HasNewline(buf) == \E i \in 1..Len(buf) : buf[i] = "NL"

FirstNewline(buf) == CHOOSE i \in 1..Len(buf) :
    buf[i] = "NL" /\ \A j \in 1..(i - 1) : buf[j] # "NL"

\* str.strip(): drops the blanks at both ends
RECURSIVE Strip(_)
Strip(line) ==
    IF line = <<>> THEN line
    ELSE IF Head(line) = "Sp" THEN Strip(Tail(line))
    ELSE IF line[Len(line)] = "Sp" THEN Strip(SubSeq(line, 1, Len(line) - 1))
    ELSE line

IsToken(s) == s # "Sp"

\* json.loads(line) followed by data.get("refresh"): what the line turns out
\* to be.  Blanks between JSON tokens are insignificant.
\*   "malformed": json.JSONDecodeError
\*   "nonobj":    valid JSON without .get (AttributeError)
\*   "falsy":     an object whose refresh value is missing or falsy
Decode(line) ==
    LET t == SelectSeq(line, IsToken)
    IN  IF t = <<"F">> \/ t = <<"H", "Hf">> THEN "force"
        ELSE IF t = <<"S">> THEN "soft"
        ELSE IF t = <<"Z">> \/ t = <<"E">> THEN "falsy"
        ELSE IF t = <<"N">> THEN "nonobj"
        ELSE "malformed"

\* the rate limit with the boundary let through
SoftRefreshAllowedInclusive(st, now) ==
    Get(st, "last_scrape", 0) <= now - Cooldown

\* the soft-refresh rate limit: self.state.get("last_scrape", 0) < now_ - 600
SoftRefreshAllowed(st, now) == Get(st, "last_scrape", 0) < now - Cooldown

\* what a force command does to (self.next_scrape, self.state)
ApplyForce(m, now) ==
    [m EXCEPT !.state = Put(m.state, "next_scrape", now)]

\* a soft refresh without the rate limit
ApplySoftUnlimited(m, now) ==
    [m EXCEPT !.next_scrape = now,
              !.state = Put(m.state, "next_scrape", now)]

\* what a soft refresh does to (self.next_scrape, self.state)
ApplySoft(m, now) ==
    IF SoftRefreshAllowed(m.state, now)
    THEN [m EXCEPT !.next_scrape = now,
                   !.state = Put(m.state, "next_scrape", now)]
    ELSE m

\* process_input that takes any object for a refresh request, whatever its
\* refresh value
process_input_any_object(m, line, now) ==
    LET kind == Decode(line)
        seen == [m EXCEPT !.handled = Append(m.handled, kind)]
    IN  CASE kind = "force"              -> ApplyForce(seen, now)
          [] kind \in {"soft", "falsy"}  -> ApplySoft(seen, now)
          [] kind = "nonobj"             -> [seen EXCEPT !.raised = TRUE]
          [] OTHER                       -> seen

\* process_input(line) at time now; m = [buf, next_scrape, state, raised,
\* handled], raised standing for an exception that leaves process_input
process_input(m, line, now) ==
    LET kind == Decode(line)
        seen == [m EXCEPT !.handled = Append(m.handled, kind)]
    IN  CASE kind = "force"     -> ApplyForce(seen, now)
          [] kind = "soft"      -> ApplySoft(seen, now)
          [] kind = "nonobj"    -> [seen EXCEPT !.raised = TRUE]
          [] OTHER              -> seen

\* the loop `while "\n" in self.stdin_buffer` of run(); an exception of
\* process_input leaves the loop with the rest of the buffer in place
RECURSIVE Drain(_, _)
Drain(m, now) ==
    IF ~HasNewline(m.buf) THEN m
    ELSE LET i    == FirstNewline(m.buf)
             line == Strip(SubSeq(m.buf, 1, i - 1))
             rest == [m EXCEPT !.buf = SubSeq(m.buf, i + 1, Len(m.buf))]
         IN  IF line = <<>> THEN Drain(rest, now)
             ELSE LET r == process_input(rest, line, now)
                  IN  IF r.raised THEN r ELSE Drain(r, now)

----------------------------------------------------------------------------
(* The process *)

\* reads that deliver one complete line
LineChunks == {<<s, "NL">> : s \in Symbols \ {"Hf", "Sp", "NL"}}

\* reads that cut the text anywhere, as far as the buffer is followed
StdinSymbols == {"F", "Z", "N", "H", "Hf", "Sp", "NL"}
AnyChunks ==
    LET room == MaxBuf - Len(stdin_buffer)
    IN  Texts(StdinSymbols, IF room < MaxRead THEN room ELSE MaxRead)

\* no VoebbScraper object exists: run_scrape has not made one
NoWalker ==
    /\ variant = "none"
    /\ current_url = "none"
    /\ last_response = "none"
    /\ wpc = "none"
    /\ log = <<>>
    /\ ret = "none"
    /\ published = <<>>

\* first run: __init__ on a state.db that does not exist yet
InitLoop ==
    /\ data = <<>>
    /\ clock \in ClockValues
    /\ pc = "start"
    /\ state = EmptyStore
    /\ disk = EmptyStore
    /\ next_scrape = clock
    /\ last_check = 0
    /\ stdin_buffer = <<>>
    /\ remaining = 0
    /\ handled = <<>>
    /\ attempt = "none"
    /\ refreshed = FALSE
    /\ backs = 0
    /\ restarts = 0
    /\ cause = "none"
    /\ forced = FALSE

Init == InitLoop /\ NoWalker

\* should_scrape with the deadline itself not yet due
should_scrape_strict(now, ns, st, lc) ==
    \/ now > ns
    \/ now < Get(st, "last_scrape", 0)
    \/ now < lc

\* should_scrape without the comparison with self.last_check
should_scrape_unchecked(now, ns, st, lc) ==
    \/ now >= ns
    \/ now < Get(st, "last_scrape", 0)

\* the property should_scrape, without its write of self.last_check
should_scrape(now, ns, st, lc) ==
    \/ now >= ns
    \/ now < Get(st, "last_scrape", 0)
    \/ now < lc

\* wait_time = max(self.next_scrape - time.time(), 5)
wait_time(ns, now) == Max(ns - now, MinWait)

\* pc = "start": __init__ is done and run() has not looked at the schedule
\* yet; pc = "idle": run() is back at the top of its loop
AtLoopTop == pc \in {"start", "idle"}

\* run(): `if self.should_scrape:` at the top of the loop, and, when it is
\* false, the computation of wait_time and the entry into select()
ShouldScrape ==
    /\ AtLoopTop
    /\ IF should_scrape(clock, next_scrape, state, last_check)
       THEN /\ pc' = "scraping"
            /\ cause' = IF clock >= next_scrape THEN "due" ELSE "behind"
            /\ UNCHANGED <<last_check, remaining>>
       ELSE /\ last_check' = clock
            /\ pc' = "wait"
            /\ remaining' = wait_time(next_scrape, clock)
            /\ UNCHANGED cause
    /\ handled' = <<>>
    /\ UNCHANGED <<clock, next_scrape, state, disk, stdin_buffer, attempt,
                   refreshed, backs, restarts>>
    /\ data' = <<>>
    /\ UNCHANGED forced
    /\ UNCHANGED wvars

\* run_scrape with the deadline not moved on by the interval
run_scrape_no_interval(st, now) ==
    Put(Put(st, "last_scrape", now), "next_scrape", now)

\* the store after run_scrape's two writes
run_scrape(st, now) ==
    Put(Put(st, "last_scrape", now), "next_scrape", now + interval_seconds)

\* run_scrape() without its sync()
RunScrapeUnsynced ==
    /\ pc = "scraping"
    /\ state' = Put(Put(state, "last_scrape", clock),
                    "next_scrape", clock + interval_seconds)
    /\ next_scrape' = state'["next_scrape"]
    /\ pc' = "walking"
    /\ attempt' = "running"
    /\ refreshed' = FALSE
    /\ UNCHANGED <<clock, last_check, disk, stdin_buffer, remaining, handled,
                   backs, restarts>>
    /\ forced' = (cause = "behind")
    /\ cause' = "none"
    /\ UNCHANGED data
    /\ UNCHANGED wvars

\* run_scrape() up to the call of the walker: the writes and the sync()
RunScrape ==
    /\ pc = "scraping"
    /\ state' = run_scrape(state, clock)
    /\ next_scrape' = state'["next_scrape"]
    /\ disk' = state'
    /\ pc' = "walking"
    /\ attempt' = "running"
    /\ refreshed' = FALSE
    /\ UNCHANGED <<clock, last_check, stdin_buffer, remaining, handled, backs, restarts>>
    /\ forced' = (cause = "behind")
    /\ cause' = "none"
    /\ UNCHANGED data
    /\ UNCHANGED wvars

\* scraper.run() and process_books_data return; run() goes on to the wait
WalkOk ==
    /\ pc = "walking"
    /\ pc' = "wait"
    /\ remaining' = wait_time(next_scrape, clock)
    /\ attempt' = "ok"
    /\ UNCHANGED <<clock, next_scrape, last_check, state, disk, stdin_buffer,
                   handled, refreshed, backs, restarts>>
    /\ UNCHANGED <<data, cause, forced>>
    /\ UNCHANGED wvars

\* scraper.run() or process_books_data raises; run() catches it, prints it
\* and starts the next iteration
WalkFail ==
    /\ pc = "walking"
    /\ pc' = "idle"
    /\ attempt' = "failed"
    /\ UNCHANGED <<clock, next_scrape, last_check, state, disk, stdin_buffer,
                   remaining, handled, refreshed, backs, restarts>>
    /\ UNCHANGED <<data, cause, forced>>
    /\ UNCHANGED wvars

\* select() returns with nothing to read
Timeout ==
    /\ pc = "wait"
    /\ remaining = 0
    /\ pc' = "idle"
    /\ handled' = <<>>
    /\ UNCHANGED <<clock, next_scrape, last_check, state, disk, stdin_buffer,
                   remaining, attempt, refreshed, backs, restarts>>
    /\ UNCHANGED <<data, cause, forced>>
    /\ UNCHANGED wvars

IsRefresh(kind) == kind \in {"force", "soft"}

\* select() returns stdin readable: the read, and the loop over the lines
ReadInput(chunk) ==
    /\ pc = "wait"
    /\ LET m == Drain([buf |-> stdin_buffer \o chunk,
                       next_scrape |-> next_scrape,
                       state |-> state,
                       raised |-> FALSE,
                       handled |-> <<>>], clock)
       IN  /\ stdin_buffer' = m.buf
           /\ next_scrape' = m.next_scrape
           /\ state' = m.state
           /\ handled' = m.handled
           /\ refreshed' = (refreshed \/ \E i \in 1..Len(m.handled) :
                                             IsRefresh(m.handled[i]))
    /\ pc' = "idle"
    /\ remaining' = 0
    /\ UNCHANGED <<clock, last_check, disk, attempt, backs, restarts>>
    /\ data' = chunk
    /\ UNCHANGED <<cause, forced>>
    /\ UNCHANGED wvars

\* time passes: the wall clock reaches t
Tick(t) ==
    /\ t > clock
    /\ clock' = t
    /\ remaining' = IF pc = "wait"
                    THEN Max(remaining - (t - clock), 0)
                    ELSE remaining
    /\ UNCHANGED <<pc, next_scrape, last_check, state, disk, stdin_buffer,
                   handled, attempt, refreshed, backs, restarts>>
    /\ UNCHANGED <<data, cause, forced>>
    /\ UNCHANGED wvars

\* the wall clock is set back
ClockBack ==
    /\ backs < MaxBacks
    /\ \E t \in ClockValues : t < clock /\ clock' = t
    /\ backs' = backs + 1
    /\ UNCHANGED <<pc, next_scrape, last_check, state, disk, stdin_buffer,
                   remaining, handled, attempt, refreshed, restarts>>
    /\ forced' = FALSE
    /\ UNCHANGED <<data, cause>>
    /\ UNCHANGED wvars

\* the process is gone; what is left is the file
Stopped(kept) ==
    /\ pc' = "down"
    /\ disk' = kept
    /\ state' = kept
    /\ next_scrape' = 0
    /\ last_check' = 0
    /\ stdin_buffer' = <<>>
    /\ remaining' = 0
    /\ handled' = <<>>
    /\ attempt' = IF attempt = "running" THEN "crashed" ELSE attempt
    /\ UNCHANGED <<clock, refreshed, backs, restarts>>
    /\ data' = <<>>
    /\ cause' = "none"
    /\ UNCHANGED forced
    /\ UNCHANGED wvars

\* the process is killed: writes made since the last sync() may be lost
Crash ==
    /\ pc # "down"
    /\ \E kept \in {disk, state} : Stopped(kept)

\* run() is left by an exception that is no Exception: state.close()
Shutdown ==
    /\ pc # "down"
    /\ Stopped(state)

\* __init__ that does not look at the stored deadline
RestartDueNow ==
    /\ pc = "down"
    /\ restarts < MaxRestarts
    /\ restarts' = restarts + 1
    /\ pc' = "start"
    /\ state' = disk
    /\ next_scrape' = clock
    /\ last_check' = 0
    /\ stdin_buffer' = <<>>
    /\ UNCHANGED <<clock, disk, remaining, handled, attempt, refreshed, backs>>
    /\ UNCHANGED <<data, cause, forced>>
    /\ UNCHANGED wvars

\* __init__ of the next process
Restart ==
    /\ pc = "down"
    /\ restarts < MaxRestarts
    /\ restarts' = restarts + 1
    /\ pc' = "start"
    /\ state' = disk
    /\ next_scrape' = Get(disk, "next_scrape", clock)
    /\ last_check' = 0
    /\ stdin_buffer' = <<>>
    /\ UNCHANGED <<clock, disk, remaining, handled, attempt, refreshed, backs>>
    /\ UNCHANGED <<data, cause, forced>>
    /\ UNCHANGED wvars

Next ==
    \/ ShouldScrape
    \/ RunScrape
    \/ WalkOk
    \/ WalkFail
    \/ Timeout
    \/ \E chunk \in LineChunks : ReadInput(chunk)
    \/ \E t \in ClockValues : Tick(t)
    \/ ClockBack
    \/ Crash
    \/ Shutdown
    \/ Restart

Spec == Init /\ [][Next]_vars

(* The same process, its input cut into arbitrary chunks: a process that   *)
(* is neither killed nor sees its clock set back, observed when it starts  *)
(* and when its next scrape is due.                                        *)
StdinClockValues == {1000, 4605}

InitStdin == Init /\ clock = 1000

NextStdin ==
    \/ ShouldScrape
    \/ RunScrape
    \/ WalkOk
    \/ WalkFail
    \/ Timeout
    \/ \E chunk \in AnyChunks : ReadInput(chunk)
    \/ \E t \in StdinClockValues : Tick(t)

SpecStdin == InitStdin /\ [][NextStdin]_vars

(* The same process at one instant, with room for two lines and the        *)
(* beginning of a third in its buffer.                                     *)
MaxPending == 5

SplitSymbols == {"F", "N", "H", "Hf", "NL"}
SplitChunks ==
    LET room == MaxPending - Len(stdin_buffer)
    IN  Texts(SplitSymbols, IF room < MaxRead THEN room ELSE MaxRead)

NextSplit ==
    \/ ShouldScrape
    \/ RunScrape
    \/ WalkOk
    \/ WalkFail
    \/ \E chunk \in SplitChunks : ReadInput(chunk)

SpecSplit == InitStdin /\ [][NextSplit]_vars

(* The same process with a clock that is never set back and an input that  *)
(* holds no force command: soft refreshes and lines that are discarded.    *)
NoForceChunks == {<<s, "NL">> : s \in Symbols \ {"F", "Hf", "Sp", "NL"}}

NextSoft ==
    \/ ShouldScrape
    \/ RunScrape
    \/ WalkOk
    \/ WalkFail
    \/ Timeout
    \/ \E chunk \in NoForceChunks : ReadInput(chunk)
    \/ \E t \in ClockValues : Tick(t)
    \/ Crash
    \/ Shutdown
    \/ Restart

SpecSoft == Init /\ [][NextSoft]_vars

----------------------------------------------------------------------------
(* Steps the properties speak about *)

\* a read that handed at least one line to process_input
ReadStep == pc = "wait" /\ handled' # <<>>

\* an evaluation of should_scrape by run()
EvalStep == AtLoopTop /\ pc' \in {"scraping", "wait"}

HasLastScrape == "last_scrape" \in DOMAIN state

\* the clock is below a time the process remembers
ClockIsBehind ==
    \/ HasLastScrape /\ clock < state["last_scrape"]
    \/ clock < last_check

----------------------------------------------------------------------------
(* C1: after process_input has handled a force command at time now, the    *)
(* next_scrape that should_scrape consults equals now.                     *)
(* With a clock that is never set back, the next evaluation of            *)
(* should_scrape then goes on to the scrape.                               *)
C1_ForceMakesDueNow ==
    [][/\ (ReadStep /\ handled' = <<"force">> /\ backs = 0)
            => next_scrape' = clock
       /\ (EvalStep /\ handled = <<"force">> /\ backs = 0)
            => pc' = "scraping"]_vars

(* C2: a soft refresh handled at time now sets next_scrape (in memory and  *)
(* in the store) to now if last_scrape is absent or more than 600 seconds  *)
(* before now, and otherwise leaves last_scrape and both next_scrape       *)
(* values as they were.                                                    *)
C2_SoftRefreshRateLimited ==
    [][(ReadStep /\ handled' = <<"soft">>) =>
          IF ~HasLastScrape \/ state["last_scrape"] < clock - Cooldown
          THEN /\ next_scrape' = clock
               /\ state' = Put(state, "next_scrape", clock)
               /\ disk' = disk
          ELSE /\ next_scrape' = next_scrape
               /\ state' = state
               /\ disk' = disk]_vars

\* a soft refresh accepted 601 or more seconds after the last scrape
C2_Witness ==
    /\ pc = "idle"
    /\ handled = <<"soft">>
    /\ HasLastScrape
    /\ state["last_scrape"] < clock - Cooldown
    /\ next_scrape = clock
    /\ state["next_scrape"] = clock

(* C3: when the clock is not behind last_scrape or last_check,             *)
(* should_scrape is true exactly when now >= next_scrape.                  *)
C3_DueExactlyAtDeadline ==
    [][(EvalStep /\ ~ClockIsBehind) =>
          (pc' = "scraping" <=> clock >= next_scrape)]_vars

\* should_scrape has just answered yes at the very deadline
C3_Witness ==
    /\ pc = "scraping"
    /\ clock = next_scrape
    /\ ~ClockIsBehind

(* C4: when now < last_scrape or now < last_check, the evaluation at the   *)
(* top of the loop goes on to the scrape, also when now < next_scrape.     *)
C4_BackwardClockScrapes ==
    [][(EvalStep /\ ClockIsBehind) => pc' = "scraping"]_vars

\* the loop is about to scrape ahead of its deadline, the clock being
\* behind the last check only
C4_Witness ==
    /\ pc = "scraping"
    /\ clock < next_scrape
    /\ clock < last_check
    /\ HasLastScrape /\ clock >= state["last_scrape"]

(* C5: a scrape attempt started at time t sets last_scrape = t and         *)
(* next_scrape = t + interval and flushes both before the walker is        *)
(* called; they stay on disk whether the walker succeeds, fails or the     *)
(* process is killed during the walk.                                      *)
C5_AttemptRecordedBeforeWalk ==
    [][/\ (pc = "scraping" /\ pc' = "walking") =>
            /\ state'["last_scrape"] = clock
            /\ state'["next_scrape"] = clock + interval_seconds
            /\ next_scrape' = clock + interval_seconds
            /\ disk' = state'
       /\ pc = "walking" =>
            /\ disk' = disk
            /\ state' = state
            /\ pc' # "down" => next_scrape' = next_scrape]_vars

\* the process was killed during a walk and the attempt is on disk
C5_Witness ==
    /\ pc = "down"
    /\ attempt = "crashed"
    /\ "last_scrape" \in DOMAIN disk
    /\ disk["next_scrape"] = disk["last_scrape"] + interval_seconds

(* C6: a failed scrape is not fatal and uses up its slot: the loop goes    *)
(* back to its top, and with no refresh command and a clock never set back *)
(* it decides on no further scrape before t + interval.                    *)
C6_FailedScrapeKeepsSlot ==
    [][/\ (pc = "walking" /\ attempt' = "failed") => pc' = "idle"
       /\ (pc' = "scraping" /\ attempt' = "failed" /\ ~refreshed'
             /\ backs' = 0)
            => clock' >= state'["last_scrape"] + interval_seconds]_vars

\* the scrape after a failed one, an interval later
C6_Witness ==
    /\ pc = "scraping"
    /\ attempt = "failed"
    /\ ~refreshed
    /\ backs = 0
    /\ restarts = 0
    /\ clock >= state["last_scrape"] + interval_seconds

\* the clock is behind the stored last scrape or behind the start of the
\* process (self.next_scrape is the start time when the store has no deadline)
BehindAtStart ==
    \/ clock < Get(disk, "last_scrape", 0)
    \/ "next_scrape" \notin DOMAIN disk /\ clock < next_scrape

\* the first evaluation of a process is governed by the stored deadline
GovernedByStore ==
    /\ pc' = "scraping" <=>
          ("next_scrape" \notin DOMAIN disk \/ clock >= disk["next_scrape"])
    /\ (pc' = "wait" /\ "next_scrape" \in DOMAIN disk) =>
          remaining' = Max(disk["next_scrape"] - clock, MinWait)

(* C7 as stated: the first evaluation after a (re)start scrapes exactly    *)
(* when now >= the stored next_scrape or the store has none, and otherwise *)
(* waits for the stored deadline.                                          *)
C7_StoredDeadlineGoverns ==
    [][(pc = "start" /\ EvalStep) => GovernedByStore]_vars

(* C7 amended: the same, provided the clock is not behind the stored       *)
(* last_scrape nor behind the start of the process.                        *)
C7_StoredDeadlineGovernsUnlessBehind ==
    [][(pc = "start" /\ EvalStep /\ ~BehindAtStart) => GovernedByStore]_vars

\* killed during a walk, started again, and waiting for the stored deadline
C7_Witness ==
    /\ pc = "wait"
    /\ restarts > 0
    /\ attempt = "crashed"
    /\ clock < disk["next_scrape"]
    /\ next_scrape = disk["next_scrape"]
    /\ last_check = clock

(* C8: every operation that writes the store has flushed its writes when   *)
(* it returns: when the process is killed, what the next process reads is  *)
(* the store as the last operation left it.                                *)
C8_WritesSurviveKill ==
    [][(pc # "down" /\ pc' = "down") => disk' = state]_vars

Discarded == {"malformed", "nonobj", "falsy"}

(* C9: lines that are no refresh command (malformed JSON, JSON that is no  *)
(* object, an object without a truthy refresh) do not end the loop and     *)
(* leave last_scrape and both next_scrape values as they were.             *)
C9_UndecodableLineDiscarded ==
    [][(ReadStep /\ \A i \in 1..Len(handled') : handled'[i] \in Discarded)
          => /\ pc' = "idle"
             /\ state' = state
             /\ disk' = disk
             /\ next_scrape' = next_scrape]_vars

\* a malformed line and a non-object line were read and the loop is back at
\* its top
C9_Witness ==
    /\ pc = "idle"
    /\ handled = <<"malformed", "nonobj">>

\* the complete lines of a buffer, stripped
RECURSIVE CompleteLines(_)
CompleteLines(buf) ==
    IF ~HasNewline(buf) THEN <<>>
    ELSE LET i == FirstNewline(buf)
         IN  <<Strip(SubSeq(buf, 1, i - 1))>>
                \o CompleteLines(SubSeq(buf, i + 1, Len(buf)))

(* C10: every complete line that has been read is handled before the loop  *)
(* blocks in its wait again, whatever the lines before it: no refresh      *)
(* command that has been read in full is still in the buffer while the     *)
(* loop waits.                                                             *)
C10_NoCommandLeftWaiting ==
    pc = "wait" =>
        \A i \in 1..Len(CompleteLines(stdin_buffer)) :
            ~IsRefresh(Decode(CompleteLines(stdin_buffer)[i]))

\* what follows the last newline of a buffer: the line that is not yet ended
RECURSIVE LastLine(_)
LastLine(buf) ==
    IF ~HasNewline(buf) THEN buf
    ELSE LastLine(SubSeq(buf, FirstNewline(buf) + 1, Len(buf)))

\* what process_input makes of the lines of a text, blank lines left out
RECURSIVE Kinds(_)
Kinds(lines) ==
    IF lines = <<>> THEN <<>>
    ELSE IF Head(lines) = <<>> THEN Kinds(Tail(lines))
    ELSE <<Decode(Head(lines))>> \o Kinds(Tail(lines))

\* a read: select() gave stdin and sys.stdin.read returned data
ReadData == pc = "wait" /\ pc' = "idle" /\ data' # <<>>

(* C11: a line is handled only once its newline has been read.  A read     *)
(* takes whole lines off the front of the buffer and hands exactly those,  *)
(* once each, to process_input; what is left starts after a newline; and   *)
(* a refresh command whose beginning was waiting in the buffer without its *)
(* newline is among the lines taken off by the read that brings the        *)
(* newline.                                                                *)
C11_SplitCommandAppliedOnce ==
    [][ReadData =>
         LET total == stdin_buffer \o data'
             used  == Len(total) - Len(stdin_buffer')
             first == SubSeq(data', 1, FirstNewline(data') - 1)
         IN  /\ stdin_buffer' = SubSeq(total, used + 1, Len(total))
             /\ used = 0 \/ total[used] = "NL"
             /\ handled' = Kinds(CompleteLines(SubSeq(total, 1, used)))
             /\ ( /\ LastLine(stdin_buffer) # <<>>
                  /\ HasNewline(data')
                  /\ IsRefresh(Decode(Strip(LastLine(stdin_buffer) \o first))) )
                  => used >= Len(stdin_buffer) + FirstNewline(data')]_vars

----------------------------------------------------------------------------
(* The page session: current_url and last_response of VoebbScraper (and of *)
(* WebScraper, src/main.py, whose three navigation methods are the same),  *)
(* and the calls load_page, find_and_submit_form, find_and_follow_link.    *)
(*                                                                         *)
(* A response has a name (id), a status code and a document.  Its url and  *)
(* its content carry the name of the response they belong to.  A document  *)
(* is what the selectors of the walker find in it: its form tags, the      *)
(* tags the link selector matches, and the rows of the loan table.         *)

\* Python's None; also the value of an attribute a tag does not have
None == "None"

\* the status code the navigation methods compare with
OK == 200

\* the status codes the portal answers with
Statuses == {OK, 204, 404}

\* the longest list of input tags of a form
MaxInputs == 3

\* the input tags a form is made of
InputPool == {
    [name |-> "a",    type |-> "text",   value |-> None],
    [name |-> "b",    type |-> "hidden", value |-> "y"],
    [name |-> "go",   type |-> "submit", value |-> "Go"],
    [name |-> "stop", type |-> "submit", value |-> "Stop"],
    [name |-> None,   type |-> "submit", value |-> "Ok"] }

\* form tags, with and without an action attribute
Forms == {[action |-> a, inputs |-> i] :
              a \in {"/login"}, i \in {<<>>} \cup Texts(InputPool, MaxInputs)}
             \cup {[action |-> None, inputs |-> <<>>]}

\* a document and what the selectors find in it
Doc(forms, links, rows) == [forms |-> forms, links |-> links, rows |-> rows]

BlankDoc == Doc(<<>>, <<>>, <<>>)

\* documents with a form
FormDocs == {Doc(<<f>>, <<>>, <<>>) : f \in Forms}

\* documents with a tag the link selector matches, with and without href
LinkDocs == {Doc(<<>>, <<[href |-> h]>>, <<>>) : h \in {"S*SZA", None}}

\* self.last_response before the first page is stored
NoResponse == [none |-> TRUE]

\* self.current_url as __init__ sets it: the entry URL, of no response
EntryUrl == [of |-> 0]

\* response.url and response.content
ResponseUrl(r) == [of |-> r.id]
ResponseContent(r) == [of |-> r.id, doc |-> r.doc]

\* the names of responses; a new response takes one that is not in use
ResponseIds == 1..3
NewId(url, content) ==
    LET used == {url.of} \cup (IF content = NoResponse THEN {} ELSE {content.of})
    IN  CHOOSE n \in ResponseIds \ used : \A k \in ResponseIds \ used : n <= k

\* the responses the portal may give to the next request: one of pages, or
\* another status with a page that has nothing on it
Responses(pages) ==
    {[id |-> NewId(current_url, last_response), status_code |-> OK, doc |-> d] :
         d \in pages}
    \cup
    {[id |-> NewId(current_url, last_response), status_code |-> c,
      doc |-> BlankDoc] : c \in Statuses \ {OK}}

\* how a call ended: the requests it sent, the responses it got, and what
\* it returned or raised
Call(op, args, sent, got, out, result) ==
    [op |-> op, args |-> args, sent |-> sent, got |-> got, out |-> out,
     result |-> result]

Error(type, msg) == [type |-> type, msg |-> msg]

\* the session after a call, and how the call ended
After(url, content, call) ==
    [current_url |-> url, last_response |-> content, ret |-> call]

\* BeautifulSoup(self.last_response, "lxml") with last_response None
NoDocument == Error("TypeError", "object of type 'NoneType' has no len()")

\* load_page that stores the page it got under the URL it had
load_page_keeps_url(url, content, r) ==
    LET sent == <<[method |-> "GET", url |-> url]>>
    IN  IF r.status_code = OK
        THEN After(url, ResponseContent(r),
                   Call("load_page", <<>>, sent, <<r>>, "returned",
                        ResponseContent(r)))
        ELSE After(url, content,
                   Call("load_page", <<>>, sent, <<r>>, "raised",
                        Error("Exception", "Failed to load page")))

\* load_page() when the portal answers r
load_page(url, content, r) ==
    LET sent == <<[method |-> "GET", url |-> url]>>
    IN  IF r.status_code = OK
        THEN After(ResponseUrl(r), ResponseContent(r),
                   Call("load_page", <<>>, sent, <<r>>, "returned",
                        ResponseContent(r)))
        ELSE After(url, content,
                   Call("load_page", <<>>, sent, <<r>>, "raised",
                        Error("Exception", "Failed to load page")))

\* the loop over the input tags with no look at `values`
RECURSIVE build_payload_defaults_only(_, _, _, _)
build_payload_defaults_only(inputs, values, button, payload) ==
    IF inputs = <<>> THEN payload
    ELSE LET input_field == Head(inputs)
             name  == input_field.name
             value == IF input_field.value = None THEN ""
                      ELSE input_field.value
         IN  IF input_field.type = "submit" /\ name # button
             THEN build_payload_defaults_only(Tail(inputs), values, button,
                                              payload)
             ELSE build_payload_defaults_only(Tail(inputs), values, button,
                                              Put(payload, name, value))

\* the loop over the input tags of find_and_submit_form
RECURSIVE build_payload(_, _, _, _)
build_payload(inputs, values, button, payload) ==
    IF inputs = <<>> THEN payload
    ELSE LET input_field == Head(inputs)
             name  == input_field.name
             value == IF name \in DOMAIN values THEN values[name]
                      ELSE IF input_field.value = None THEN ""
                      ELSE input_field.value
         IN  IF input_field.type = "submit" /\ name # button
             THEN build_payload(Tail(inputs), values, button, payload)
             ELSE build_payload(Tail(inputs), values, button,
                                Put(payload, name, value))

\* find_and_submit_form(values, button) when the portal answers r
find_and_submit_form(url, content, values, button, r) ==
    LET args == [values |-> values, button |-> button]
        fail(sent, got, e) ==
            After(url, content,
                  Call("find_and_submit_form", args, sent, got, "raised", e))
    IN  IF content = NoResponse THEN fail(<<>>, <<>>, NoDocument)
        ELSE IF content.doc.forms = <<>>
        THEN fail(<<>>, <<>>, Error("Exception", "No form found on the page!"))
        ELSE LET form == Head(content.doc.forms)
             IN  IF form.action = None
                 THEN fail(<<>>, <<>>,
                           Error("AttributeError",
                                 "'NoneType' object has no attribute 'startswith'"))
                 ELSE LET payload == build_payload(form.inputs, values, button,
                                                   EmptyStore)
                          sent    == <<[method |-> "POST",
                                        url    |-> <<url, form.action>>,
                                        data   |-> payload]>>
                      IN  IF r.status_code = OK
                          THEN After(ResponseUrl(r), ResponseContent(r),
                                     Call("find_and_submit_form", args, sent,
                                          <<r>>, "returned", ResponseContent(r)))
                          ELSE fail(sent, <<r>>,
                                    Error("Exception", "Login failed"))

\* find_and_follow_link(css_selector) when the portal answers r
find_and_follow_link(url, content, r) ==
    LET fail(sent, got, e) ==
            After(url, content,
                  Call("find_and_follow_link", <<>>, sent, got, "raised", e))
    IN  IF content = NoResponse THEN fail(<<>>, <<>>, NoDocument)
        ELSE IF content.doc.links = <<>>
        THEN fail(<<>>, <<>>, Error("Exception", "No link found with the selector"))
        ELSE LET href == Head(content.doc.links).href
             IN  IF href = None
                 THEN fail(<<>>, <<>>,
                           Error("Exception",
                                 "The found link does not have an href attribute"))
                 ELSE LET sent == <<[method |-> "GET", url |-> <<url, href>>]>>
                      IN  IF r.status_code = OK
                          THEN After(ResponseUrl(r), ResponseContent(r),
                                     Call("find_and_follow_link", <<>>, sent,
                                          <<r>>, "returned", ResponseContent(r)))
                          ELSE fail(sent, <<r>>,
                                    Error("Exception", "Failed to follow link"))

\* a call leaves the session and its own outcome behind
SessionStep(a) ==
    /\ current_url' = a.current_url
    /\ last_response' = a.last_response
    /\ ret' = a.ret

(* A session in the hands of a caller that makes any call at any time.     *)

\* field overrides and button names a caller passes
OverrideSets == {EmptyStore, "a" :> "x", ("a" :> "x") @@ ("go" :> "w")}
Buttons == {None, "go"}

\* the pages the portal answers the caller with
SessionPages ==
    {BlankDoc, Doc(<<[action |-> "/login", inputs |-> <<>>]>>, <<>>, <<>>)}
        \cup LinkDocs

\* a session as __init__ leaves it, or on any page it has loaded
InitSession ==
    /\ InitLoop
    /\ clock = 1000
    /\ variant = "none"
    /\ wpc = "caller"
    /\ log = <<>>
    /\ published = <<>>
    /\ \/ /\ current_url = EntryUrl
          /\ last_response = NoResponse
          /\ ret = Call("__init__", <<>>, <<>>, <<>>, "returned", None)
       \/ \E d \in FormDocs \cup LinkDocs \cup {BlankDoc} :
            LET a == load_page(EntryUrl, NoResponse,
                               [id |-> 1, status_code |-> OK, doc |-> d])
            IN  /\ current_url = a.current_url
                /\ last_response = a.last_response
                /\ ret = a.ret

CallLoadPage ==
    /\ wpc = "caller"
    /\ \E r \in Responses(SessionPages) :
          SessionStep(load_page(current_url, last_response, r))
    /\ UNCHANGED <<lvars, variant, wpc, log, published>>

CallSubmitForm ==
    /\ wpc = "caller"
    /\ \E values \in OverrideSets, button \in Buttons,
          r \in Responses(SessionPages) :
          SessionStep(find_and_submit_form(current_url, last_response,
                                           values, button, r))
    /\ UNCHANGED <<lvars, variant, wpc, log, published>>

CallFollowLink ==
    /\ wpc = "caller"
    /\ \E r \in Responses(SessionPages) :
          SessionStep(find_and_follow_link(current_url, last_response, r))
    /\ UNCHANGED <<lvars, variant, wpc, log, published>>

NextSession ==
    \/ CallLoadPage
    \/ CallSubmitForm
    \/ CallFollowLink

SpecSession == InitSession /\ [][NextSession]_vars

----------------------------------------------------------------------------
(* The table parser: extract_table.  A row is the list of its td cells, a   *)
(* cell the list of its text nodes; the text of the date cell is kept      *)
(* character by character, "Sp" standing for white space.                  *)

\* the longest loan table
MaxRows == 3

Digits == <<"0", "1", "2", "3", "4", "5", "6", "7", "8", "9">>

IsDigit(c) == \E i \in 1..Len(Digits) : Digits[i] = c

DigitValue(c) == (CHOOSE i \in 1..Len(Digits) : Digits[i] = c) - 1

\* int(text) of a text of digits
RECURSIVE Number(_)
Number(text) ==
    IF text = <<>> THEN 0
    ELSE 10 * Number(SubSeq(text, 1, Len(text) - 1))
            + DigitValue(text[Len(text)])

\* the text before the first "." and the text after it
HasDot(text) == \E i \in 1..Len(text) : text[i] = "."
FirstDot(text) == CHOOSE i \in 1..Len(text) :
    text[i] = "." /\ \A j \in 1..(i - 1) : text[j] # "."

IsLeap(y) == (y % 4 = 0 /\ y % 100 # 0) \/ y % 400 = 0

DaysIn(m, y) ==
    IF m = 2 THEN (IF IsLeap(y) THEN 29 ELSE 28)
    ELSE IF m \in {4, 6, 9, 11} THEN 30 ELSE 31

Date(y, m, d) == [year |-> y, month |-> m, day |-> d]

\* datetime.strptime(text, "%d.%m.%Y").date(): one or two digits, a dot,
\* one or two digits, a dot, four digits, and a day the calendar has;
\* <<>> stands for the ValueError
strptime(text) ==
    IF ~HasDot(text) THEN <<>>
    ELSE LET dd   == SubSeq(text, 1, FirstDot(text) - 1)
             rest == SubSeq(text, FirstDot(text) + 1, Len(text))
         IN  IF ~HasDot(rest) THEN <<>>
             ELSE LET mm   == SubSeq(rest, 1, FirstDot(rest) - 1)
                      yyyy == SubSeq(rest, FirstDot(rest) + 1, Len(rest))
                      digits(t) == \A i \in 1..Len(t) : IsDigit(t[i])
                  IN  IF /\ Len(dd) \in {1, 2} /\ digits(dd)
                         /\ Len(mm) \in {1, 2} /\ digits(mm)
                         /\ Len(yyyy) = 4 /\ digits(yyyy)
                         /\ Number(mm) \in 1..12
                         /\ Number(yyyy) >= 1
                         /\ Number(dd) >= 1
                         /\ Number(dd) <= DaysIn(Number(mm), Number(yyyy))
                      THEN <<Date(Number(yyyy), Number(mm), Number(dd))>>
                      ELSE <<>>

\* n written with `width` digits
RECURSIVE Padded(_, _)
Padded(n, width) ==
    IF width = 0 THEN <<>>
    ELSE Padded(n \div 10, width - 1) \o <<Digits[(n % 10) + 1]>>

\* date.isoformat() with month and day in each other's place
isoformat_day_first(date) ==
    Padded(date.year, 4) \o <<"-">> \o Padded(date.day, 2)
        \o <<"-">> \o Padded(date.month, 2)

\* date.isoformat()
isoformat(date) ==
    Padded(date.year, 4) \o <<"-">> \o Padded(date.month, 2)
        \o <<"-">> \o Padded(date.day, 2)

\* date.toordinal(): the days since 0001-01-01, that day being 1
toordinal(date) ==
    LET y == date.year - 1
        RECURSIVE before(_)
        before(m) == IF m = 1 THEN 0
                     ELSE before(m - 1) + DaysIn(m - 1, date.year)
    IN  365 * y + (y \div 4) - (y \div 100) + (y \div 400)
           + before(date.month) + date.day

\* the text nodes of a cell that are not white space: stripped_strings
stripped_strings(cell) == SelectSeq(cell, IsToken)

\* " ".join(strings), kept as the list of its pieces
RECURSIVE join(_)
join(strings) ==
    IF Len(strings) <= 1 THEN strings
    ELSE <<Head(strings), " ">> \o join(Tail(strings))

IndexError == Error("IndexError", "list index out of range")

\* the ValueError of strptime, which quotes the text it was given
ValueError(text) ==
    [type |-> "ValueError", msg |-> "time data does not match format",
     text |-> text]

\* the body of the loop of extract_table for one row; `iso` says whether
\* due_date is kept as isoformat() (VoebbScraper) or as the date (WebScraper)
BookEntry(tds, today, iso) ==
    IF Len(tds) < 2 THEN [out |-> "raised", result |-> IndexError]
    ELSE LET date_str == Strip(tds[2])
             due_date == strptime(date_str)
         IN  IF due_date = <<>>
             THEN [out |-> "raised", result |-> ValueError(date_str)]
             ELSE IF Len(tds) < 5 THEN [out |-> "raised", result |-> IndexError]
             ELSE [out |-> "returned",
                   result |->
                     [due_date  |-> IF iso THEN isoformat(due_date[1])
                                    ELSE due_date[1],
                      library   |-> stripped_strings(tds[3]),
                      title     |-> join(stripped_strings(tds[4])),
                      hint      |-> stripped_strings(tds[5]),
                      days_left |-> toordinal(due_date[1]) - toordinal(today)]]

\* the loop of extract_table over the rows from the first to the last
RECURSIVE extract_rows(_, _, _, _)
extract_rows(rows, today, iso, items) ==
    IF rows = <<>> THEN [out |-> "returned", result |-> items]
    ELSE LET entry == BookEntry(Head(rows), today, iso)
         IN  IF entry.out = "raised" THEN entry
             ELSE extract_rows(Tail(rows), today, iso,
                               Append(items, entry.result))

\* extract_table() on the day `today`
extract_table(url, content, today, iso) ==
    LET parsed == IF content = NoResponse
                  THEN [out |-> "raised", result |-> NoDocument]
                  ELSE extract_rows(content.doc.rows, today, iso, <<>>)
    IN  After(url, content,
              Call("extract_table", <<>>, <<>>, <<>>, parsed.out, parsed.result))

----------------------------------------------------------------------------
(* What is published: process_books_data *)

\* the days ahead that count as due soon
DueSoonDays == 5

\* the characters of an isoformat() text in the order of their code points
CodePoints == <<"-">> \o Digits

Ord(c) == CHOOSE i \in 1..Len(CodePoints) : CodePoints[i] = c

\* a < b of two str
RECURSIVE str_lt(_, _)
str_lt(a, b) ==
    IF b = <<>> THEN FALSE
    ELSE IF a = <<>> THEN TRUE
    ELSE IF Head(a) = Head(b) THEN str_lt(Tail(a), Tail(b))
    ELSE Ord(Head(a)) < Ord(Head(b))

\* a <= b of two str
str_le(a, b) == a = b \/ str_lt(a, b)

\* date + timedelta(days=n)
RECURSIVE plus_days(_, _)
plus_days(date, n) ==
    IF n = 0 THEN date
    ELSE plus_days(
            IF date.day < DaysIn(date.month, date.year)
            THEN Date(date.year, date.month, date.day + 1)
            ELSE IF date.month < 12 THEN Date(date.year, date.month + 1, 1)
            ELSE Date(date.year + 1, 1, 1),
            n - 1)

\* the loop of process_books_data; closest_due_date None is <<>>, a str s
\* is <<s>>
RECURSIVE count_books(_, _, _)
count_books(books, due_soon_threshold, acc) ==
    IF books = <<>> THEN acc
    ELSE LET book == Head(books)
             closest ==
                 IF \/ acc.closest_due_date = <<>>
                    \/ acc.closest_due_date[1] = <<>>
                    \/ str_lt(book.due_date, acc.closest_due_date[1])
                 THEN <<book.due_date>>
                 ELSE acc.closest_due_date
             soon ==
                 IF str_le(book.due_date, due_soon_threshold)
                 THEN acc.books_due_within_5_days + 1
                 ELSE acc.books_due_within_5_days
         IN  count_books(Tail(books), due_soon_threshold,
                         [closest_due_date |-> closest,
                          books_due_within_5_days |-> soon])

\* process_books_data that keeps the first due date it sees
process_books_data_first(books, now) ==
    [closest_due_date |-> IF books = <<>> THEN <<>>
                          ELSE <<books[1].due_date>>,
     books_due_soon   |->
         count_books(books, isoformat(plus_days(now, DueSoonDays)),
                     [closest_due_date |-> <<>>,
                      books_due_within_5_days |-> 0]).books_due_within_5_days,
     books_open_total |-> Len(books),
     attributes       |-> books]

\* process_books_data(books) on the day `now`: the four states it publishes
process_books_data(books, now) ==
    LET acc == count_books(books, isoformat(plus_days(now, DueSoonDays)),
                           [closest_due_date |-> <<>>,
                            books_due_within_5_days |-> 0])
    IN  [closest_due_date |-> acc.closest_due_date,
         books_due_soon   |-> acc.books_due_within_5_days,
         books_open_total |-> Len(books),
         attributes       |-> books]

----------------------------------------------------------------------------
(* The walker: run() of VoebbScraper, called by run_scrape, which hands    *)
(* the result to process_books_data; and run() of WebScraper, the script   *)
(* src/main.py.                                                            *)

\* the texts of date cells
Date_01_01_2030 == <<"0", "1", ".", "0", "1", ".", "2", "0", "3", "0">>
Date_15_06_2024 == <<"1", "5", ".", "0", "6", ".", "2", "0", "2", "4">>
Date_20_03_2025 == <<"2", "0", ".", "0", "3", ".", "2", "0", "2", "5">>
Date_31_04_2025 == <<"3", "1", ".", "0", "4", ".", "2", "0", "2", "5">>
Date_ISO        == <<"2", "0", "2", "4", "-", "0", "6", "-", "1", "5">>

\* a row of the loan table with this text in its date cell
Row(date_text) ==
    << <<"1">>, <<"Sp">> \o date_text \o <<"Sp">>, <<"SBK">>,
       <<"Der Titel", "Sp", "Band 1">>, <<"Sp", "verlaengerbar">> >>

\* a row with two cells only
ShortRow == << <<"1">>, Date_15_06_2024 >>

\* the rows a loan table is made of
RowPool ==
    {Row(t) : t \in {Date_01_01_2030, Date_15_06_2024, Date_20_03_2025,
                     Date_31_04_2025, Date_ISO}} \cup {ShortRow}

\* documents with the loan table, the empty one among them
TableDocs ==
    {Doc(<<>>, <<>>, rows) : rows \in {<<>>} \cup Texts(RowPool, MaxRows)}

\* the days on which the walker runs
Todays == {Date(2024, 6, 12), Date(2025, 3, 18)}

\* the overrides of the filter step and of the login step
FilterValues == "selected" :> "ZTEXT       *SBK"
LoginValues == ("L#AUSW" :> "username") @@ ("LPASSW" :> "password")

\* the login form
LoginForm ==
    [action |-> "/login",
     inputs |-> << [name |-> "L#AUSW",  type |-> "text",     value |-> None],
                   [name |-> "LPASSW",  type |-> "password", value |-> None],
                   [name |-> "LLOGIN",  type |-> "submit",   value |-> "Anmelden"] >>]

\* the pages the portal answers the walker with
WalkPages ==
    {BlankDoc, Doc(<<LoginForm>>, <<>>, <<>>)} \cup LinkDocs \cup TableDocs

\* the scraper as its __init__ leaves it, in either script
InitWalk ==
    /\ InitLoop
    /\ clock = 1000
    /\ variant \in {"bookaware", "script"}
    /\ current_url = EntryUrl
    /\ last_response = NoResponse
    /\ wpc = "load_page"
    /\ log = <<>>
    /\ ret = Call("__init__", <<>>, <<>>, <<>>, "returned", None)
    /\ published = <<>>

\* what the log keeps of a call
Logged(step, call) ==
    [step |-> step, op |-> call.op,
     button |-> IF call.op = "find_and_submit_form" THEN call.args.button
                ELSE None,
     requests |-> Len(call.sent), out |-> call.out,
     error |-> IF call.out = "raised" THEN <<call.result>> ELSE <<>>]

\* the except clause of run(): VoebbScraper.run logs and raises again,
\* WebScraper.run logs, prints and returns
Except(e) ==
    IF variant = "bookaware"
    THEN [ret |-> Call("run", <<>>, <<>>, <<>>, "raised", e), wpc |-> "raised"]
    ELSE [ret |-> Call("run", <<>>, <<>>, <<>>, "returned", None),
          wpc |-> "returned"]

\* the return of run(): the list, or None after pprint
Return(items) ==
    Call("run", <<>>, <<>>, <<>>, "returned",
         IF variant = "bookaware" THEN items ELSE None)

\* a step of run() that goes on to the next step whether or not the call
\* raised
WalkStepRegardless(a, step, next) ==
    /\ current_url' = a.current_url
    /\ last_response' = a.last_response
    /\ log' = Append(log, Logged(step, a.ret))
    /\ ret' = a.ret
    /\ wpc' = next
    /\ UNCHANGED <<lvars, variant, published>>

\* a step of run(): the call, and the except clause if it raises
WalkStep(a, step, next) ==
    /\ current_url' = a.current_url
    /\ last_response' = a.last_response
    /\ log' = Append(log, Logged(step, a.ret))
    /\ IF a.ret.out = "returned"
       THEN /\ ret' = a.ret
            /\ wpc' = next
       ELSE /\ ret' = Except(a.ret.result).ret
            /\ wpc' = Except(a.ret.result).wpc
    /\ UNCHANGED <<lvars, variant, published>>

StepLoad ==
    /\ wpc = "load_page"
    /\ \E r \in Responses(WalkPages) :
          WalkStep(load_page(current_url, last_response, r),
                   "load_page", "filter")

StepFilter ==
    /\ wpc = "filter"
    /\ \E r \in Responses(WalkPages) :
          WalkStep(find_and_submit_form(current_url, last_response,
                                        FilterValues, None, r),
                   "filter", "login")

StepLogin ==
    /\ wpc = "login"
    /\ \E r \in Responses(WalkPages) :
          WalkStep(find_and_submit_form(current_url, last_response,
                                        LoginValues, "LLOGIN", r),
                   "login", "link")

StepLink ==
    /\ wpc = "link"
    /\ \E r \in Responses(WalkPages) :
          WalkStep(find_and_follow_link(current_url, last_response, r),
                   "link", "extract_table")

\* the last step, and the return of run()
StepTable ==
    /\ wpc = "extract_table"
    /\ \E today \in Todays :
          LET a == extract_table(current_url, last_response, today,
                                 variant = "bookaware")
          IN  /\ log' = Append(log, Logged("extract_table", a.ret))
              /\ IF a.ret.out = "returned"
                 THEN /\ ret' = Return(a.ret.result)
                      /\ wpc' = "returned"
                 ELSE /\ ret' = Except(a.ret.result).ret
                      /\ wpc' = Except(a.ret.result).wpc
    /\ UNCHANGED <<lvars, variant, current_url, last_response, published>>

\* run_scrape() after scraper.run() has returned
ProcessBooksData ==
    /\ variant = "bookaware"
    /\ wpc = "returned"
    /\ \E now \in Todays :
          published' = Append(published, process_books_data(ret.result, now))
    /\ wpc' = "published"
    /\ UNCHANGED <<lvars, variant, current_url, last_response, log, ret>>

NextWalk ==
    \/ StepLoad
    \/ StepFilter
    \/ StepLogin
    \/ StepLink
    \/ StepTable
    \/ ProcessBooksData

SpecWalk == InitWalk /\ [][NextWalk]_vars

----------------------------------------------------------------------------
(* Properties of the page session *)

NavigationOps == {"load_page", "find_and_submit_form", "find_and_follow_link"}

\* a step in which a navigation call was made and ended
NavigationStep == ret'.op \in NavigationOps

(* C14: current_url and last_response always come from the same response.  *)
(* A navigation call that returns has replaced both by the url and the     *)
(* content of the response it got; a call that raises (no form, no link,   *)
(* no href, a bad status) leaves both as they were.                        *)
C14_UrlAndDocumentTogether ==
    [][NavigationStep =>
         /\ IF ret'.out = "returned"
            THEN /\ current_url' = ResponseUrl(ret'.got[1])
                 /\ last_response' = ResponseContent(ret'.got[1])
            ELSE /\ current_url' = current_url
                 /\ last_response' = last_response
         /\ last_response' # NoResponse
               => last_response'.of = current_url'.of]_vars

\* a call that got a bad status for its request, made on a page the session
\* had loaded before
C14_Witness ==
    /\ wpc = "caller"
    /\ ret.op = "find_and_submit_form"
    /\ ret.out = "raised"
    /\ ret.got # <<>>
    /\ last_response # NoResponse
    /\ last_response.of = current_url.of

Is2xx(c) == c \in 200..299

(* C15: a navigation call that gets a response fails when the status is    *)
(* not 2xx, and for every 2xx status it returns and has stored the         *)
(* response as the current state.                                          *)
C15_SucceedsOnEvery2xx ==
    [][(NavigationStep /\ ret'.got # <<>>) =>
         /\ ret'.out = "returned" <=> Is2xx(ret'.got[1].status_code)
         /\ ret'.out = "returned"
               => /\ current_url' = ResponseUrl(ret'.got[1])
                  /\ last_response' = ResponseContent(ret'.got[1])]_vars

\* the input tags that contribute to the payload when `button` is clicked
Contributes(input_field, button) ==
    input_field.type # "submit" \/ input_field.name = button

\* the payload as the precedence rule gives it: the names of the
\* contributing tags, each with its override or else the default of the
\* last tag of that name
ExpectedPayload(inputs, values, button) ==
    LET idx      == {i \in 1..Len(inputs) : Contributes(inputs[i], button)}
        last(n)  == CHOOSE i \in idx :
                        /\ inputs[i].name = n
                        /\ \A j \in idx : inputs[j].name = n => j <= i
        dflt(n)  == IF inputs[last(n)].value = None THEN ""
                    ELSE inputs[last(n)].value
    IN  [n \in {inputs[i].name : i \in idx} |->
            IF n \in DOMAIN values THEN values[n] ELSE dflt(n)]

\* a step in which find_and_submit_form posted a payload
SubmitStep == ret'.op = "find_and_submit_form" /\ ret'.sent # <<>>

\* the form of the example: a without default, b with default y, submit go
ExampleInputs ==
    << [name |-> "a",  type |-> "text",   value |-> None],
       [name |-> "b",  type |-> "hidden", value |-> "y"],
       [name |-> "go", type |-> "submit", value |-> "Go"] >>

ExamplePayload == ("a" :> "x") @@ ("b" :> "y") @@ ("go" :> "Go")

(* C16: the payload is built from every input of the first form: a         *)
(* non-submit input gives name -> default ("" without one), a submit       *)
(* input gives its entry only if its name is the button's, and an          *)
(* override replaces the value.  Inputs a, b = y, submit go with           *)
(* overrides {a: x} and button go give exactly {a: x, b: y, go: Go}.       *)
C16_PayloadFromEveryInput ==
    [][SubmitStep =>
         LET inputs == Head(last_response.doc.forms).inputs
             args   == ret'.args
             posted == ret'.sent[1].data
         IN  /\ posted = ExpectedPayload(inputs, args.values, args.button)
             /\ ( /\ inputs = ExampleInputs
                  /\ args.values = ("a" :> "x")
                  /\ args.button = "go" ) => posted = ExamplePayload]_vars

\* the example has been posted
C16_Witness ==
    /\ ret.op = "find_and_submit_form"
    /\ ret.sent # <<>>
    /\ ret.args = [values |-> ("a" :> "x"), button |-> "go"]
    /\ ret.sent[1].data = ExamplePayload

(* C17: submitted without a button name, a form contributes no entry of    *)
(* a submit-type input to the payload, whatever the form, also when its    *)
(* submit inputs have no name attribute: the payload has an entry for      *)
(* each non-submit input and no other.                                     *)
C17_NoButtonDropsEverySubmit ==
    [][(SubmitStep /\ ret'.args.button = None) =>
         LET inputs == Head(last_response.doc.forms).inputs
         IN  DOMAIN ret'.sent[1].data =
                 {inputs[i].name : i \in {j \in 1..Len(inputs) :
                                             inputs[j].type # "submit"}}]_vars

----------------------------------------------------------------------------
(* Properties of the walker, the parser and the publication *)

\* the protocol of the walk: the calls and the buttons, in order
Protocol ==
    << [op |-> "load_page",            button |-> None],
       [op |-> "find_and_submit_form", button |-> None],
       [op |-> "find_and_submit_form", button |-> "LLOGIN"],
       [op |-> "find_and_follow_link", button |-> None],
       [op |-> "extract_table",        button |-> None] >>

\* run() is over
WalkEnded == wpc \in {"returned", "raised", "published"}

\* the last call of the walk raised
LastStepFailed == log # <<>> /\ log[Len(log)].out = "raised"

(* C12: the walker makes its calls in the order of the protocol (load the  *)
(* entry URL, submit the filter form with no button, submit the login form *)
(* with button LLOGIN, follow the account link, parse the table); a call   *)
(* is made only after every earlier one returned, each sends at most one   *)
(* request, none is made twice, and after the first call that raises the   *)
(* walk is over.                                                           *)
C12_StepsInOrderNoRetry ==
    /\ Len(log) <= Len(Protocol)
    /\ \A i \in 1..Len(log) :
          /\ log[i].op = Protocol[i].op
          /\ log[i].button = Protocol[i].button
          /\ log[i].requests <= 1
          /\ i < Len(log) => log[i].out = "returned"
    /\ LastStepFailed => WalkEnded
    /\ ~WalkEnded => wpc = <<"load_page", "filter", "login", "link",
                             "extract_table">>[Len(log) + 1]

\* the login was refused after the entry page and the filter went through
C12_Witness ==
    /\ Len(log) = 3
    /\ log[3].out = "raised"
    /\ log[3].requests = 1
    /\ WalkEnded

(* C13: when a step fails, run() of the walker raises that step's error,   *)
(* the same error, to its caller and returns no list, in both scripts.     *)
C13_ErrorPropagatedUnchanged ==
    (WalkEnded /\ LastStepFailed) =>
        /\ ret.op = "run"
        /\ ret.out = "raised"
        /\ ret.result = log[Len(log)].error[1]

\* a row the parser cannot take: fewer than five cells, or no date in its
\* date cell
BadRow(tds) == Len(tds) < 5 \/ strptime(Strip(tds[2])) = <<>>

\* the 0-based index of the first such row
FirstBadRow(rows) ==
    CHOOSE k \in 0..(Len(rows) - 1) :
        BadRow(rows[k + 1]) /\ \A j \in 1..k : ~BadRow(rows[j])

\* the table has been parsed, or the parser has given up on it
TableStepDone == log # <<>> /\ log[Len(log)].op = "extract_table"

(* C18: if row k (0-based) is the first row with too few columns or with a *)
(* date cell that is no DD.MM.YYYY date, the parse fails with an error     *)
(* that identifies row k, returns no partial list, and the walk fails:     *)
(* nothing is published.                                                   *)
C18_BadRowFailsWithItsIndex ==
    (TableStepDone /\ \E i \in 1..Len(last_response.doc.rows) :
                          BadRow(last_response.doc.rows[i])) =>
        LET e == log[Len(log)].error
        IN  /\ log[Len(log)].out = "raised"
            /\ "row_index" \in DOMAIN e[1]
            /\ e[1].row_index = FirstBadRow(last_response.doc.rows)
            /\ variant = "bookaware" => wpc = "raised"
            /\ published = <<>>

\* the fixture: three rows, and the isoformat() texts of their dates
FixtureRows ==
    <<Row(Date_01_01_2030), Row(Date_15_06_2024), Row(Date_20_03_2025)>>

Iso_2030_01_01 == <<"2", "0", "3", "0", "-", "0", "1", "-", "0", "1">>
Iso_2024_06_15 == <<"2", "0", "2", "4", "-", "0", "6", "-", "1", "5">>
Iso_2025_03_20 == <<"2", "0", "2", "5", "-", "0", "3", "-", "2", "0">>
Iso_2025_03_25 == <<"2", "0", "2", "5", "-", "0", "3", "-", "2", "5">>

\* the walk of the add-on has parsed the fixture
FixtureParsed ==
    /\ variant = "bookaware"
    /\ wpc \in {"returned", "published"}
    /\ last_response.doc.rows = FixtureRows

\* the due dates of a list of records, in the order of the list
DueDates(books) == [i \in 1..Len(books) |-> books[i].due_date]

(* C19, as stated: the fixture with the dates 01.01.2030, 15.06.2024 and   *)
(* 20.03.2025 gives three records in row order with the due dates          *)
(* 2030-01-01, 2024-06-15 and 2025-03-25, and 2024-06-15 is published as   *)
(* the closest due date.                                                   *)
C19_FixtureDatesAsStated ==
    FixtureParsed =>
        /\ ret.out = "returned"
        /\ DueDates(ret.result)
              = <<Iso_2030_01_01, Iso_2024_06_15, Iso_2025_03_25>>
        /\ wpc = "published"
              => published[1].closest_due_date = <<Iso_2024_06_15>>

(* C19, amended: the fixture with the dates 01.01.2030, 15.06.2024 and     *)
(* 20.03.2025 gives three records in row order with the due dates          *)
(* 2030-01-01, 2024-06-15 and 2025-03-20, and 2024-06-15 is published as   *)
(* the closest due date.                                                   *)
C19_FixtureDatesAsParsed ==
    FixtureParsed =>
        /\ ret.out = "returned"
        /\ DueDates(ret.result)
              = <<Iso_2030_01_01, Iso_2024_06_15, Iso_2025_03_20>>
        /\ wpc = "published"
              => published[1].closest_due_date = <<Iso_2024_06_15>>

\* the fixture has been parsed and its states published
C19_Witness == FixtureParsed /\ wpc = "published"

\* an isoformat() text as a number that grows with the calendar
Chronological(iso) ==
    10000 * Number(SubSeq(iso, 1, 4)) + 100 * Number(SubSeq(iso, 6, 7))
        + Number(SubSeq(iso, 9, 10))

(* C20: whatever list of records is published, in any order and with       *)
(* duplicates, the closest due date published is the earliest due_date of  *)
(* the list; an empty list is published with no closest due date, total 0  *)
(* and due-soon 0.                                                         *)
C20_ClosestIsEarliest ==
    \A i \in 1..Len(published) :
        LET p     == published[i]
            books == p.attributes
        IN  IF books = <<>>
            THEN /\ p.closest_due_date = <<>>
                 /\ p.books_open_total = 0
                 /\ p.books_due_soon = 0
            ELSE /\ p.closest_due_date # <<>>
                 /\ \E k \in 1..Len(books) :
                       books[k].due_date = p.closest_due_date[1]
                 /\ \A k \in 1..Len(books) :
                       Chronological(p.closest_due_date[1])
                           <= Chronological(books[k].due_date)
                 /\ p.books_open_total = Len(books)

\* three records are published, the earliest last and after two that are
\* the same
C20_Witness ==
    /\ published # <<>>
    /\ Len(published[1].attributes) = 3
    /\ published[1].attributes[1].due_date
          = published[1].attributes[2].due_date
    /\ published[1].closest_due_date
          = <<published[1].attributes[3].due_date>>
    /\ published[1].attributes[3].due_date
          # published[1].attributes[1].due_date

----------------------------------------------------------------------------
(* Properties of the schedule across operations of the command loop *)

\* the loop is between two operations: at its top or in its wait
BetweenOperations == pc \in {"start", "idle", "wait"}

(* C21: once the store holds a next_scrape, self.next_scrape equals it     *)
(* whenever the loop has completed an operation (a scrape attempt, a       *)
(* force command, a soft refresh, a discarded line).                       *)
C21_MemoryAgreesWithStore ==
    (BetweenOperations /\ "next_scrape" \in DOMAIN state)
        => next_scrape = state["next_scrape"]


\* run_scrape starts: the step that begins a scrape attempt
AttemptStarts == pc = "scraping" /\ pc' = "walking"

(* C22: after the scrape attempt that a clock set back has forced, made at  *)
(* time t, and with the clock not set back again and no refresh command     *)
(* handled since, no further scrape attempt starts before t + interval,     *)
(* whether the walker of that attempt failed or a line arrived.             *)
C22_OneAttemptPerSetBack ==
    [][(AttemptStarts /\ forced /\ ~refreshed)
           => clock >= state["last_scrape"] + interval_seconds]_vars


(* C23: with a clock that is never set back, an interval longer than the    *)
(* cooldown and no force command, every scrape attempt starts more than 600 *)
(* seconds after the start of the attempt before it, whatever soft          *)
(* refreshes arrive.                                                        *)
C23_AttemptsMoreThanCooldownApart ==
    [][(AttemptStarts /\ HasLastScrape)
           => clock > state["last_scrape"] + Cooldown]_vars

\* a soft refresh has made the scrape due before its deadline: the loop is
\* about to start the attempt
C23_Witness ==
    /\ pc = "scraping"
    /\ refreshed
    /\ cause = "due"
    /\ HasLastScrape
    /\ next_scrape < state["last_scrape"] + interval_seconds
    /\ clock < state["last_scrape"] + interval_seconds

====
